---- MODULE Spec2Model ----
(***************************************************************************)
(* Position monitoring and analysis orchestration of the Titan chess       *)
(* extension: monitor() (content.js), the stockfish session and the        *)
(* analyze / preAnalyze / showMove / watchdog logic (engine.js), and       *)
(* clearArrows (drawing.js), together with the worker they talk to.        *)
(***************************************************************************)
EXTENDS Integers, Sequences, FiniteSets, TLC

(* ---------------------------- bounds ----------------------------------- *)
\* non-initial positions the board can show (fen ids 1..NFen; id 0 is the
\* initial position)
NFen == 2
\* analysis requests issued in one behaviour
MaxReq == 2

(* ---------------------------- positions -------------------------------- *)
\* A FEN is abstracted to an id.  Id 0 is the initial position, for which
\* getFen() always reports white to move; other ids alternate the side to
\* move, so that every non-initial id is a distinct fen string.
StartFen == 0
\* the empty string '' of T.currentFen / T.previousFen
EmptyFen == -1
\* getFen() returned null (no board in the DOM)
NullFen == -2
Fens == 0..NFen
Colors == {"w", "b"}
Turn(fen) == IF fen % 2 = 0 THEN "w" ELSE "b"
IsStart(fen) == fen = StartFen

(* ---------------------------- board.js -------------------------------- *)
\* the castling rights a FEN can carry
CastlingRights == {"K", "Q", "k", "q"}

\* the kings and rooks that castle
CastlePieces == {"WhiteKing", "WhiteRookA", "WhiteRookH",
                 "BlackKing", "BlackRookA", "BlackRookH"}

\* the castling rights that need piece p unmoved
RightsOf(p) ==
    CASE p = "WhiteKing" -> {"K", "Q"}
      [] p = "WhiteRookA" -> {"Q"}
      [] p = "WhiteRookH" -> {"K"}
      [] p = "BlackKing" -> {"k", "q"}
      [] p = "BlackRookA" -> {"q"}
      [] p = "BlackRookH" -> {"k"}

\* the kings and rooks that are off their starting squares in a position:
\* position 2 has the white king off e1 and position 3 the black h-rook off
\* h8; in the other positions all six stand on their starting squares
OffHome(fen) ==
    IF fen = 2 THEN {"WhiteKing"}
    ELSE IF fen = 3 THEN {"BlackRookH"}
    ELSE {}

\* getFen(): the castling field of the FEN built for a position shown by
\* the board; t is TitanState as getFen() finds it
getFenCastling(t, fen) == CastlingRights

\* state.js: the castling tracking flags of TitanState
NoCastleMoved ==
    [castleWhiteKingMoved |-> FALSE, castleBlackKingMoved |-> FALSE,
     castleWhiteRookAMoved |-> FALSE, castleWhiteRookHMoved |-> FALSE,
     castleBlackRookAMoved |-> FALSE, castleBlackRookHMoved |-> FALSE]

(* ---------------------------- profiles --------------------------------- *)
\* errorRate is kept in units of 1/1000; movetime 0 means "no movetime".
Cfg(s, d, e, r, mt, u) ==
    [skillLevel |-> s, depth |-> d, uciElo |-> e, errorRate |-> r,
     movetime |-> mt, unlimited |-> u]

LevelKeys == {"1000", "1200", "1300", "1400", "1500", "1600", "1700",
              "1800", "1900", "2000", "2200", "2500", "2800", "3000"}

ELO_CONFIG ==
    [k \in LevelKeys |->
       CASE k = "1000" -> Cfg(1, 5, 800, 300, 0, FALSE)
         [] k = "1200" -> Cfg(3, 7, 1100, 220, 0, FALSE)
         [] k = "1300" -> Cfg(5, 8, 1250, 180, 0, FALSE)
         [] k = "1400" -> Cfg(7, 9, 1350, 140, 0, FALSE)
         [] k = "1500" -> Cfg(9, 10, 1450, 100, 0, FALSE)
         [] k = "1600" -> Cfg(11, 11, 1550, 80, 0, FALSE)
         [] k = "1700" -> Cfg(13, 12, 1650, 60, 0, FALSE)
         [] k = "1800" -> Cfg(15, 13, 1750, 40, 0, FALSE)
         [] k = "1900" -> Cfg(17, 14, 1850, 30, 0, FALSE)
         [] k = "2000" -> Cfg(18, 16, 2000, 20, 0, FALSE)
         [] k = "2200" -> Cfg(19, 18, 2200, 10, 0, FALSE)
         [] k = "2500" -> Cfg(20, 20, 2500, 5, 5000, FALSE)
         [] k = "2800" -> Cfg(20, 20, 2800, 0, 6000, FALSE)
         [] k = "3000" -> Cfg(20, 22, 3000, 0, 3000, TRUE)]

COMBAT_CONFIG ==
    [k \in LevelKeys |->
       CASE k = "1000" -> Cfg(3, 10, 1100, 150, 0, FALSE)
         [] k = "1200" -> Cfg(6, 12, 1350, 120, 0, FALSE)
         [] k = "1300" -> Cfg(9, 14, 1450, 100, 0, FALSE)
         [] k = "1400" -> Cfg(12, 16, 1550, 80, 0, FALSE)
         [] k = "1500" -> Cfg(15, 18, 1650, 60, 0, FALSE)
         [] k = "1600" -> Cfg(17, 20, 1750, 40, 0, FALSE)
         [] k = "1700" -> Cfg(18, 22, 1850, 30, 0, FALSE)
         [] k = "1800" -> Cfg(19, 24, 1950, 20, 0, FALSE)
         [] k = "1900" -> Cfg(20, 26, 2100, 10, 0, FALSE)
         [] k = "2000" -> Cfg(20, 28, 2300, 5, 0, FALSE)
         [] k = "2200" -> Cfg(20, 30, 2500, 0, 0, FALSE)
         [] k = "2500" -> Cfg(20, 32, 2800, 0, 8000, FALSE)
         [] k = "2800" -> Cfg(20, 24, 3000, 0, 10000, FALSE)
         [] k = "3000" -> Cfg(20, 25, 3200, 0, 5000, TRUE)]

\* (variant of Lookup: a missing key resolves to the last entry)
Lookup_Last(table, elo) == IF elo \in DOMAIN table THEN table[elo] ELSE table["3000"]

\* configTable[T.currentElo] || configTable['1000']
Lookup(table, elo) == IF elo \in DOMAIN table THEN table[elo] ELSE table["1000"]
ActiveCfg(t) == Lookup(IF t.combatMode THEN COMBAT_CONFIG ELSE ELO_CONFIG, t.currentElo)

Max(a, b) == IF a >= b THEN a ELSE b

(* ---------------------------- state ------------------------------------ *)
VARIABLES
    T,                    \* window.TitanState (the fields the core uses)
    ignoreNextBestmove,   \* engine.js: bestmoves still to skip
    analyzeWatchdog,      \* engine.js: 0 = no timer pending, else its delay
    searches,             \* 'position'+'go' requests the worker has not yet
                          \* answered with a 'bestmove' line, oldest first
    options,              \* the options last sent to the live worker
    loading,              \* engine-file fetches in progress (initEngine)
    restartTimers,        \* pending setTimeout(initEngine, 2000)
    uci,                  \* the 'uci' retry interval of the newest worker
    seq,                  \* requests issued so far (the last one's number)
    aborted,              \* unanswered requests a 'stop' was sent for
    ev,                   \* what the last handler did
    page,                 \* content.js outside TitanState: the slider index,
                          \* the stored 'elo' and the live monitor intervals
    StockfishEngine       \* engine-manager.js: the StockfishEngine object
                          \* and the searches its worker has not answered

vars == <<T, ignoreNextBestmove, analyzeWatchdog, searches,
          options, loading, restartTimers, uci, seq, aborted, ev,
          page, StockfishEngine>>

\* the record a handler works on
Cur(op) ==
    [T |-> T, ignoreNextBestmove |-> ignoreNextBestmove,
     analyzeWatchdog |-> analyzeWatchdog, searches |-> searches,
     options |-> options,
     seq |-> seq, aborted |-> aborted, page |-> page,
     ev |-> [op |-> op, fen |-> NullFen, newGame |-> FALSE, ucinewgame |-> FALSE,
             issued |-> "none", stops |-> 0, promoted |-> FALSE,
             resp |-> 0, accepted |-> FALSE, valid |-> FALSE, shown |-> FALSE,
             sample |-> 0]]

Commit(m) ==
    /\ T' = m.T
    /\ ignoreNextBestmove' = m.ignoreNextBestmove
    /\ analyzeWatchdog' = m.analyzeWatchdog
    /\ searches' = m.searches
    /\ options' = m.options
    /\ seq' = m.seq
    /\ aborted' = m.aborted
    /\ ev' = m.ev
    /\ page' = m.page
    /\ UNCHANGED StockfishEngine

\* ids of the requests issued to the live worker and not yet answered
Unanswered(m) == {m.searches[i].id : i \in 1..Len(m.searches)}


(* ---------------------------- engine.js -------------------------------- *)
\* the engine options as last set by 'setoption' ("-", 0, -1: never sent)
NoOpt == [limit |-> "-", hash |-> 0, uciElo |-> 0, contempt |-> 0, skill |-> -1]

\* postMessage('position fen ...'); postMessage('go ...'): the worker will
\* answer this search with one 'bestmove' line
PostGo(m, req) == [m EXCEPT !.searches = Append(@, req)]

\* postMessage('stop'); ignoreNextBestmove++
\* 'stop' ends the running search early; the worker posts no line of its
\* own for it.  Every request still unanswered now counts as aborted.
PostStop(m) ==
    [m EXCEPT
        !.ignoreNextBestmove = @ + 1,
        !.aborted = Unanswered(m),
        !.ev.stops = @ + 1]

\* (variant of WatchdogTimeout: depths below 10 shorten the timeout)
WatchdogTimeout_NoFloor(cfg) ==
    IF cfg.movetime # 0 THEN cfg.movetime + 5000
    ELSE 15000 + (cfg.depth - 10) * 1500

WatchdogTimeout(cfg) ==
    IF cfg.movetime # 0 THEN cfg.movetime + 5000
    ELSE 15000 + Max(0, cfg.depth - 10) * 1500

startAnalyzeWatchdog(m) ==
    [m EXCEPT !.analyzeWatchdog = WatchdogTimeout(ActiveCfg(m.T))]

clearAnalyzeWatchdog(m) == [m EXCEPT !.analyzeWatchdog = 0]

\* (variant of clearArrows: the displayed arrows are kept)
clearArrows_Keep(m) == m

\* drawing.js clearArrows(): T.arrows = [] and the overlay is emptied;
\* the pending arrows are kept
clearArrows(m) == [m EXCEPT !.T.arrows = <<>>]

\* the options setElo() / applyCombatConfig() send for a profile
\* (the worker answers no 'setoption'; what was sent is kept in options)
PostOptions(m, cfg) ==
    IF cfg.unlimited
    THEN [m EXCEPT !.options.limit = "false", !.options.hash = 32,
                   !.options.contempt = 50, !.options.skill = cfg.skillLevel]
    ELSE [m EXCEPT !.options.limit = "true", !.options.hash = 16,
                   !.options.uciElo = cfg.uciElo, !.options.skill = cfg.skillLevel]

setElo(m, elo) ==
    LET m1 == [m EXCEPT !.T.currentElo = elo]
    IN IF m1.T.engineReady /\ m1.T.stockfishWorker
       THEN PostOptions(m1, ActiveCfg(m1.T))
       ELSE m1

applyCombatConfig(m) ==
    IF m.T.engineReady /\ m.T.stockfishWorker
    THEN PostOptions(m, Lookup(COMBAT_CONFIG, m.T.currentElo))
    ELSE m

\* (variant of Issue: the running search is not aborted first)
Issue_NoAbort(m, fen, kind, depth, movetime) ==
    LET m2 == startAnalyzeWatchdog([m EXCEPT !.T.analyzing = TRUE])
        req == [id |-> m2.seq + 1, fen |-> fen, kind |-> kind,
                depth |-> depth, movetime |-> movetime]
    IN [PostGo(m2, req) EXCEPT
           !.seq = @ + 1,
           !.ev.issued = kind]

\* the part analyze() and preAnalyze() share: abort, mark busy, arm the
\* watchdog, then 'position fen ...' and 'go ...' for a new request
Issue(m, fen, kind, depth, movetime) ==
    LET m1 == IF m.T.analyzing
              THEN [PostStop(m) EXCEPT !.T.pendingArrows = <<>>, !.T.arrows = <<>>]
              ELSE m
        m2 == startAnalyzeWatchdog([m1 EXCEPT !.T.analyzing = TRUE])
        req == [id |-> m2.seq + 1, fen |-> fen, kind |-> kind,
                depth |-> depth, movetime |-> movetime]
    IN [PostGo(m2, req) EXCEPT
           !.seq = @ + 1,
           !.ev.issued = kind]

\* (variant of analyze: nothing is sent while a search is running)
analyze_WhenIdle(m, fen) ==
    IF ~m.T.engineReady \/ ~m.T.stockfishWorker \/ m.T.analyzing THEN m
    ELSE LET cfg == ActiveCfg(m.T)
         IN Issue(m, fen, "analyze", cfg.depth, cfg.movetime)

analyze(m, fen) ==
    IF ~m.T.engineReady \/ ~m.T.stockfishWorker THEN m
    ELSE LET cfg == ActiveCfg(m.T)
         IN Issue(m, fen, "analyze", cfg.depth, cfg.movetime)

\* (variant of preAnalyze: the readiness of the session is not tested)
preAnalyze_NoGuard(m, fen) ==
    LET cfg == ActiveCfg(m.T)
    IN Issue(m, fen, "preAnalyze", Max(6, cfg.depth - 4), 3000)

preAnalyze(m, fen) ==
    IF ~m.T.engineReady \/ ~m.T.stockfishWorker THEN m
    ELSE LET cfg == ActiveCfg(m.T)
         IN Issue(m, fen, "preAnalyze", Max(6, cfg.depth - 4), 3000)

\* (variant of showMove: the move is drawn but not kept as pending)
showMove_ArrowsOnly(m, move) ==
    [m EXCEPT !.T.arrows = <<move>>,
              !.ev.shown = TRUE]

\* showMove(move): the move is stored as pending and as the active arrow,
\* and drawn at once
showMove(m, move) ==
    [m EXCEPT !.T.pendingArrows = <<move>>,
              !.T.arrows = <<move>>,
              !.ev.shown = TRUE]


(* ---------------------------- content.js ------------------------------- *)
\* (variant of setup: the running interval is not cleared)
setup_NoClear(m) ==
    [m EXCEPT !.page.intervals = @ + 1,
              !.T.monitorInterval = TRUE]

\* setup(): the interval T.monitorInterval refers to is cleared and a new
\* one started
setup(m) ==
    LET m1 == IF m.T.monitorInterval
              THEN [m EXCEPT !.page.intervals = @ - 1]
              ELSE m
    IN [m1 EXCEPT !.page.intervals = @ + 1,
                  !.T.monitorInterval = TRUE]

\* the new-game branch of monitor(): results are dropped, the castling
\* flags reset, 'ucinewgame' is sent to a ready engine; setup() restarts the
\* polling interval
NewGameReset(m) ==
    LET m1 == clearArrows([m EXCEPT !.T.myTurnColor = "-",
                                    !.T.pendingArrows = <<>>,
                                    !.T.castleWhiteKingMoved = FALSE,
                                    !.T.castleBlackKingMoved = FALSE,
                                    !.T.castleWhiteRookAMoved = FALSE,
                                    !.T.castleWhiteRookHMoved = FALSE,
                                    !.T.castleBlackRookAMoved = FALSE,
                                    !.T.castleBlackRookHMoved = FALSE,
                                    !.ev.newGame = TRUE])
    IN setup(IF m1.T.stockfishWorker /\ m1.T.engineReady
             THEN [m1 EXCEPT !.ev.ucinewgame = TRUE]
             ELSE m1)

\* (variant of monitor: a prefetch is issued whether or not queue mode is on)
monitor_AlwaysPrefetch(m, fen, color) ==
    IF fen = NullFen THEN m
    ELSE
    LET isStart == IsStart(fen)
        wasNotStart == m.T.previousFen # EmptyFen /\ ~IsStart(m.T.previousFen)
        m1 == IF isStart /\ wasNotStart THEN NewGameReset(m) ELSE m
        turn == Turn(fen)
        m2 == [m1 EXCEPT !.T.myTurnColor = color, !.ev.fen = fen]
        isMyTurn == (turn = m2.T.myTurnColor)
        m3a == clearArrows([m2 EXCEPT !.T.previousFen = m2.T.currentFen,
                                      !.T.currentFen = fen,
                                      !.T.pendingArrows = <<>>])
        m3 == IF fen # m2.T.currentFen
              THEN (IF isMyTurn THEN analyze(m3a, fen) ELSE preAnalyze(m3a, fen))
              ELSE m2
        m4 == IF ~isMyTurn /\ Len(m3.T.arrows) > 0 THEN clearArrows(m3) ELSE m3
        m5 == IF isMyTurn /\ Len(m4.T.pendingArrows) > 0 /\ Len(m4.T.arrows) = 0
              THEN [m4 EXCEPT !.T.arrows = m4.T.pendingArrows,
                              !.ev.promoted = TRUE]
              ELSE m4
        m6 == IF /\ isMyTurn
                 /\ Len(m5.T.pendingArrows) = 0
                 /\ Len(m5.T.arrows) = 0
                 /\ ~m5.T.analyzing
              THEN analyze(m5, fen)
              ELSE m5
    IN m6

\* (variant of monitor: without a snapshot the results are dropped)
monitor_NoSnapshotClears(m, fen, color) ==
    IF fen = NullFen THEN clearArrows([m EXCEPT !.T.pendingArrows = <<>>])
    ELSE
    LET isStart == IsStart(fen)
        wasNotStart == m.T.previousFen # EmptyFen /\ ~IsStart(m.T.previousFen)
        m1 == IF isStart /\ wasNotStart THEN NewGameReset(m) ELSE m
        turn == Turn(fen)
        m2 == [m1 EXCEPT !.T.myTurnColor = color, !.ev.fen = fen]
        isMyTurn == (turn = m2.T.myTurnColor)
        m3a == clearArrows([m2 EXCEPT !.T.previousFen = m2.T.currentFen,
                                      !.T.currentFen = fen,
                                      !.T.pendingArrows = <<>>])
        m3 == IF fen # m2.T.currentFen
              THEN (IF isMyTurn THEN analyze(m3a, fen)
                    ELSE IF m3a.T.queueMode THEN preAnalyze(m3a, fen)
                    ELSE m3a)
              ELSE m2
        m4 == IF ~isMyTurn /\ Len(m3.T.arrows) > 0 THEN clearArrows(m3) ELSE m3
        m5 == IF isMyTurn /\ Len(m4.T.pendingArrows) > 0 /\ Len(m4.T.arrows) = 0
              THEN [m4 EXCEPT !.T.arrows = m4.T.pendingArrows,
                              !.ev.promoted = TRUE]
              ELSE m4
        m6 == IF /\ isMyTurn
                 /\ Len(m5.T.pendingArrows) = 0
                 /\ Len(m5.T.arrows) = 0
                 /\ ~m5.T.analyzing
              THEN analyze(m5, fen)
              ELSE m5
    IN m6

\* monitor(): one poll of the board; fen and color are what B.getFen() and
\* B.getPlayerColor() return during this poll
monitor(m, fen, color) ==
    IF fen = NullFen THEN m
    ELSE
    LET isStart == IsStart(fen)
        wasNotStart == m.T.previousFen # EmptyFen /\ ~IsStart(m.T.previousFen)
        m1 == IF isStart /\ wasNotStart THEN NewGameReset(m) ELSE m
        turn == Turn(fen)
        m2 == [m1 EXCEPT !.T.myTurnColor = color, !.ev.fen = fen]
        isMyTurn == (turn = m2.T.myTurnColor)
        \* position changed
        m3a == clearArrows([m2 EXCEPT !.T.previousFen = m2.T.currentFen,
                                      !.T.currentFen = fen,
                                      !.T.pendingArrows = <<>>])
        m3 == IF fen # m2.T.currentFen
              THEN (IF isMyTurn THEN analyze(m3a, fen)
                    ELSE IF m3a.T.queueMode THEN preAnalyze(m3a, fen)
                    ELSE m3a)
              ELSE m2
        \* opponent's turn: arrows are cleared
        m4 == IF ~isMyTurn /\ Len(m3.T.arrows) > 0 THEN clearArrows(m3) ELSE m3
        \* our turn: pending arrows are restored
        m5 == IF isMyTurn /\ Len(m4.T.pendingArrows) > 0 /\ Len(m4.T.arrows) = 0
              THEN [m4 EXCEPT !.T.arrows = m4.T.pendingArrows,
                              !.ev.promoted = TRUE]
              ELSE m4
        \* our turn, nothing shown, not analyzing
        m6 == IF /\ isMyTurn
                 /\ Len(m5.T.pendingArrows) = 0
                 /\ Len(m5.T.arrows) = 0
                 /\ ~m5.T.analyzing
              THEN analyze(m5, fen)
              ELSE m5
    IN m6

\* (variant of onBestmove: no bestmove is skipped)
onBestmove_NoIgnore(m, r, ok) ==
    LET m0 == [m EXCEPT !.searches = Tail(@),
                        !.aborted = @ \ {r.id},
                        !.ev.resp = r.id]
        m1 == IF ok THEN showMove(m0, [req |-> r.id, fen |-> r.fen, kind |-> r.kind])
              ELSE m0
    IN clearAnalyzeWatchdog([m1 EXCEPT !.T.analyzing = FALSE,
                                       !.ev.accepted = TRUE,
                                       !.ev.valid = ok])

\* the 'bestmove' branch of the worker's onmessage handler; r is the search
\* the line answers and ok tells whether the line carries a move
\* ('bestmove (none)' does not match the pattern)
onBestmove(m, r, ok) ==
    LET m0 == [m EXCEPT !.searches = Tail(@),
                        !.aborted = @ \ {r.id},
                        !.ev.resp = r.id]
    IN IF m0.ignoreNextBestmove > 0
       THEN [m0 EXCEPT !.ignoreNextBestmove = @ - 1]
       ELSE LET m1 == IF ok THEN showMove(m0, [req |-> r.id, fen |-> r.fen, kind |-> r.kind])
                      ELSE m0
            IN clearAnalyzeWatchdog([m1 EXCEPT !.T.analyzing = FALSE,
                                               !.ev.accepted = TRUE,
                                               !.ev.valid = ok])

\* (variant of onUciok: only the defaults are sent, setElo is not called)
onUciok_DefaultsOnly(m) ==
    LET m1 == [m EXCEPT !.T.engineReady = TRUE]
    IN [m1 EXCEPT !.options.limit = "true", !.options.hash = 16]

\* the 'uciok' branch of the worker's onmessage handler
onUciok(m) ==
    LET m1 == [m EXCEPT !.T.engineReady = TRUE]
        m2 == [m1 EXCEPT !.options.limit = "true", !.options.hash = 16]
    IN setElo(m2, m2.T.currentElo)

\* (variant of onWatchdog: the busy flag is left set)
onWatchdog_KeepBusy(m) ==
    LET m0 == [m EXCEPT !.analyzeWatchdog = 0]
    IN IF m0.T.analyzing /\ m0.T.stockfishWorker THEN PostStop(m0) ELSE m0

\* the watchdog's timeout callback
onWatchdog(m) ==
    LET m0 == [m EXCEPT !.analyzeWatchdog = 0]
    IN IF m0.T.analyzing
       THEN LET m1 == [m0 EXCEPT !.T.analyzing = FALSE]
            IN IF m1.T.stockfishWorker THEN PostStop(m1) ELSE m1
       ELSE m0

\* (variant of onError: the busy flag and the watchdog are left as they are)
onError_KeepBusy(m) ==
    [m EXCEPT !.T.stockfishWorker = FALSE,
              !.T.engineReady = FALSE,
              !.searches = <<>>,
              !.options = NoOpt,
              !.aborted = {}]

\* the worker's onerror handler.  The error is taken as the end of the
\* worker: the searches it had not answered are never answered.
onError(m) ==
    LET m1 == clearAnalyzeWatchdog([m EXCEPT !.T.analyzing = FALSE])
    IN [m1 EXCEPT !.T.stockfishWorker = FALSE,
                  !.T.engineReady = FALSE,
                  !.searches = <<>>,
                  !.options = NoOpt,
                  !.aborted = {}]


(* ---------------------------- session ---------------------------------- *)
\* 'if (uciRetries > 20)': the retry count above which the interval gives up
UciRetryLimit == 20

\* no retry interval: retries is the closure's uciRetries, failed counts the
\* 'ENGINE: FAILED TO START' notifications the interval has shown
NoInterval == [running |-> FALSE, retries |-> 0, failed |-> 0]

\* one firing of the retry interval; a cleared interval's counter is gone.
\* Without a worker the postMessage throws and the counter is not advanced.
onUciInterval(t, u) ==
    IF t.engineReady THEN [u EXCEPT !.running = FALSE, !.retries = 0]
    ELSE IF u.retries > UciRetryLimit
         THEN [u EXCEPT !.running = FALSE, !.retries = 0, !.failed = @ + 1]
    ELSE IF ~t.stockfishWorker THEN u
    ELSE [u EXCEPT !.retries = @ + 1]

\* initEngine(): nothing when a worker exists, else the engine files are
\* fetched (the worker is created when the fetch resolves)
initEngine(t, n) == IF t.stockfishWorker THEN n ELSE n + 1

(* ---------------------------- page ------------------------------------- *)
\* nothing is stored under 'elo'
NoElo == ""

\* the page once the boot callbacks have run (the stored level is read,
\* the widget is created and setup() has started the monitor interval);
\* loadWidgetSettings has not yet got its answer from the storage.
\* elo, combatStored and queueMode are what the storage holds: the level,
\* whether the stored engine mode is 'combat' (all the code reads of it),
\* and the queue mode
Booted(elo, combat, queue) ==
    [currentEloIndex |-> 0, settingsLoaded |-> FALSE, elo |-> elo,
     combatStored |-> combat, queueMode |-> queue, intervals |-> 1]

\* ELO_LEVELS: the levels of the slider (numbers)
ELO_LEVELS == <<1000, 1200, 1300, 1400, 1500, 1600, 1700,
                1800, 1900, 2000, 2200, 2500, 2800, 3000>>

\* parseInt(elo) of a stored 'elo' string
ParseInt(elo) ==
    CASE elo = "900" -> 900
      [] elo = "1000" -> 1000 [] elo = "1200" -> 1200 [] elo = "1300" -> 1300
      [] elo = "1400" -> 1400 [] elo = "1500" -> 1500 [] elo = "1600" -> 1600
      [] elo = "1700" -> 1700 [] elo = "1800" -> 1800 [] elo = "1900" -> 1900
      [] elo = "2000" -> 2000 [] elo = "2200" -> 2200 [] elo = "2500" -> 2500
      [] elo = "2800" -> 2800 [] elo = "3000" -> 3000

\* String(n) of a level of the slider
String(n) == CHOOSE k \in LevelKeys : ParseInt(k) = n

\* ELO_LEVELS.indexOf(n): the 0-based index, -1 when n is no level
IndexOf(n) ==
    IF \E i \in 1..Len(ELO_LEVELS) : ELO_LEVELS[i] = n
    THEN (CHOOSE i \in 1..Len(ELO_LEVELS) : ELO_LEVELS[i] = n) - 1
    ELSE -1

\* updateEloDisplay(): the level of the slider index is sent to the engine
\* and saved; the arrows are cleared and re-analysis forced
updateEloDisplay(m) ==
    LET elo == String(ELO_LEVELS[m.page.currentEloIndex + 1])
        m1 == setElo(m, elo)
        m2 == [m1 EXCEPT !.page.elo = elo]
    IN [clearArrows(m2) EXCEPT !.T.currentFen = EmptyFen]

\* the click handler of the slider arrows
onEloArrow(m, action) ==
    LET i == m.page.currentEloIndex
        j == CASE action = "first" -> 0
               [] action = "prev" -> Max(0, i - 1)
               [] action = "next" -> IF i + 1 <= Len(ELO_LEVELS) - 1
                                     THEN i + 1 ELSE Len(ELO_LEVELS) - 1
               [] action = "last" -> Len(ELO_LEVELS) - 1
    IN updateEloDisplay([m EXCEPT !.page.currentEloIndex = j])

\* the part of loadWidgetSettings() that restores the engine mode (in
\* combat mode a ready engine is sent the combat options) and the queue mode
restoreModes(m) ==
    LET m1 == [m EXCEPT !.T.combatMode = m.page.combatStored]
        m2 == IF m1.T.combatMode /\ m1.T.engineReady
              THEN applyCombatConfig(m1) ELSE m1
    IN IF m2.page.queueMode THEN [m2 EXCEPT !.T.queueMode = TRUE] ELSE m2

\* the callback of loadWidgetSettings(): the slider index is restored from
\* the stored 'elo' (levels up to 1900 only), then the modes
loadWidgetSettings(m) ==
    LET elo == m.page.elo
        idx == IF elo # NoElo /\ ParseInt(elo) <= 1900
               THEN IndexOf(ParseInt(elo)) ELSE -1
        m1 == IF idx # -1 THEN [m EXCEPT !.page.currentEloIndex = idx] ELSE m
        m2 == restoreModes(m1)
    IN [m2 EXCEPT !.page.settingsLoaded = TRUE]

(* ---------------------------- engine-manager.js ------------------------ *)
\* callbacks has no 'analyze' entry
NoCallback == 0

\* getEloConfig(elo): the five profiles, '1000' for any other level
MgrCfg(s, d, e) == [skillLevel |-> s, depth |-> d, uciElo |-> e]

MgrLevels == {"1000", "1200", "1300", "1400", "1500"}

getEloConfig(elo) ==
    CASE elo = "1200" -> MgrCfg(4, 10, 1200)
      [] elo = "1300" -> MgrCfg(7, 12, 1300)
      [] elo = "1400" -> MgrCfg(10, 14, 1400)
      [] elo = "1500" -> MgrCfg(13, 16, 1500)
      [] OTHER -> MgrCfg(1, 8, 1000)

\* nothing has been handed to a callback yet
NoDelivery == [kind |-> "none", call |-> 0, search |-> 0, fen |-> EmptyFen]

\* new StockfishEngine(). callback is the number of the analyze() call whose
\* callback is registered under 'analyze'; searches are the 'go' commands
\* the worker has not answered yet, oldest first, each with the number of
\* the call that sent it; uciPending: 'uci' is sent and not answered;
\* options: the 'setoption' values last sent; calls counts the analyze()
\* calls that sent a search; got is the last value handed to a callback,
\* with the callback that got it and the search that produced it
NoEngine ==
    [engine |-> FALSE, ready |-> FALSE, analyzing |-> FALSE,
     currentElo |-> "1000", callback |-> NoCallback, searches |-> <<>>,
     uciPending |-> FALSE,
     options |-> [limit |-> "-", uciElo |-> 0, skill |-> -1],
     calls |-> 0, got |-> NoDelivery]

\* StockfishEngine.init(): nothing when the worker exists, else the worker
\* is created and sent 'uci'
mgrInit(e) ==
    IF e.engine THEN e
    ELSE [e EXCEPT !.engine = TRUE, !.uciPending = TRUE]

\* StockfishEngine.setElo(elo)
mgrSetElo(e, elo) ==
    LET config == getEloConfig(elo)
        e1 == [e EXCEPT !.currentElo = elo]
    IN IF e1.engine /\ e1.ready
       THEN [e1 EXCEPT !.options.uciElo = config.uciElo,
                       !.options.skill = config.skillLevel]
       ELSE e1

\* the 'uciok' branch of the worker's onmessage
mgrUciok(e) ==
    LET e1 == [e EXCEPT !.ready = TRUE, !.uciPending = FALSE,
                        !.options.limit = "true"]
    IN mgrSetElo(e1, e1.currentElo)

\* StockfishEngine.analyze(fen, callback)
mgrAnalyze(e, fen) ==
    IF ~e.ready \/ e.analyzing THEN e
    ELSE LET config == getEloConfig(e.currentElo)
             call == e.calls + 1
         IN [e EXCEPT !.analyzing = TRUE,
                      !.callback = call,
                      !.calls = call,
                      !.searches = Append(@, [call |-> call, fen |-> fen,
                                              depth |-> config.depth,
                                              stopped |-> FALSE])]

\* StockfishEngine.stop(): 'stop' ends the running searches early, each
\* still answers with its 'bestmove' line
mgrStop(e) ==
    IF e.engine
    THEN [e EXCEPT !.analyzing = FALSE,
                   !.searches = [i \in DOMAIN @ |-> [@[i] EXCEPT !.stopped = TRUE]]]
    ELSE e

\* StockfishEngine.handleBestMove(line) for the line that answers the
\* oldest search; match: the line holds a move
handleBestMove(e, match) ==
    LET s == Head(e.searches)
        e1 == [e EXCEPT !.searches = Tail(@)]
        e2 == IF match /\ e1.callback # NoCallback
              THEN [e1 EXCEPT !.got = [kind |-> "bestmove", call |-> e1.callback,
                                       search |-> s.call, fen |-> s.fen],
                              !.callback = NoCallback]
              ELSE e1
    IN [e2 EXCEPT !.analyzing = FALSE]

\* StockfishEngine.handleInfo(line) for an 'info' line of the oldest
\* search; score: the line holds a score
handleInfo(e, score) ==
    LET s == Head(e.searches)
    IN IF score /\ e.callback # NoCallback
       THEN [e EXCEPT !.got = [kind |-> "partial", call |-> e.callback,
                               search |-> s.call, fen |-> s.fen]]
       ELSE e

(* ---------------------------- initial state ---------------------------- *)
\* The uniform samples (in units of 1/1000) a suppression draw would see when
\* a valid result is accepted; showMove() itself draws none.
Samples == {0, 500}

Init ==
    /\ \E q \in BOOLEAN :
         T = [currentFen |-> EmptyFen, previousFen |-> EmptyFen,
              arrows |-> <<>>, pendingArrows |-> <<>>,
              stockfishWorker |-> FALSE, engineReady |-> FALSE,
              currentElo |-> "1000", analyzing |-> FALSE,
              myTurnColor |-> "-", combatMode |-> FALSE, queueMode |-> q,
              monitorInterval |-> TRUE]
                @@ NoCastleMoved
    /\ ignoreNextBestmove = 0
    /\ analyzeWatchdog = 0
    /\ searches = <<>>
    /\ options = NoOpt
    /\ loading = initEngine([stockfishWorker |-> FALSE], 0)
    /\ restartTimers = 0
    /\ uci = NoInterval
    /\ seq = 0
    /\ aborted = {}
    /\ page = Booted(NoElo, FALSE, T.queueMode)
    /\ StockfishEngine = NoEngine
    /\ ev = Cur("boot").ev

(* ---------------------------- actions ---------------------------------- *)
Session == <<loading, restartTimers, uci>>

\* setInterval(monitor, 100) fires; the board shows fen (or no board) and
\* the player's color is detected as color
Tick ==
    \E fen \in Fens \cup {NullFen}, color \in Colors :
      LET m == monitor(Cur("tick"), fen, color)
      IN /\ m.seq <= MaxReq
         /\ Commit(m)
         /\ UNCHANGED Session

\* the worker ends its oldest search (by itself or on 'stop') and posts
\* the 'bestmove' line; onmessage handles it
Bestmove ==
    /\ Len(searches) > 0
    /\ \E u \in Samples, ok \in BOOLEAN :
         LET m == onBestmove(Cur("bestmove"), Head(searches), ok)
         IN Commit([m EXCEPT !.ev.sample = IF m.ev.valid THEN u ELSE 0])
    /\ UNCHANGED Session

\* the worker answers a 'uci' poke with 'uciok'
UciOk ==
    /\ T.stockfishWorker
    /\ ~T.engineReady
    /\ Commit(onUciok(Cur("uciok")))
    /\ UNCHANGED Session

\* the watchdog timer expires
Watchdog ==
    /\ analyzeWatchdog # 0
    /\ Commit(onWatchdog(Cur("watchdog")))
    /\ UNCHANGED Session

\* the worker fires an error event
EngineError ==
    /\ T.stockfishWorker
    /\ Commit(onError(Cur("error")))
    /\ restartTimers' = restartTimers + 1
    /\ UNCHANGED <<loading, uci>>

\* setTimeout(() => initEngine(), 2000) fires
RestartTimer ==
    /\ restartTimers > 0
    /\ restartTimers' = restartTimers - 1
    /\ loading' = initEngine(T, loading)
    /\ UNCHANGED <<T, ignoreNextBestmove, analyzeWatchdog, searches,
                   options, uci, seq, aborted, ev, page, StockfishEngine>>

\* the engine files are fetched: the worker is created and its 'uci'
\* retry interval started.  A worker it replaces stays as it is.
WorkerCreated ==
    /\ loading > 0
    /\ loading' = loading - 1
    /\ T' = [T EXCEPT !.stockfishWorker = TRUE]
    /\ options' = NoOpt
    /\ uci' = [NoInterval EXCEPT !.running = TRUE]
    /\ UNCHANGED <<ignoreNextBestmove, analyzeWatchdog, searches,
                   restartTimers, seq, aborted, ev, page, StockfishEngine>>

\* the queue button of the widget
QueueClick ==
    /\ T' = [T EXCEPT !.queueMode = ~@]
    /\ page' = [page EXCEPT !.queueMode = T'.queueMode]
    /\ UNCHANGED <<ignoreNextBestmove, analyzeWatchdog, searches,
                   options, Session, seq, aborted, ev, StockfishEngine>>

\* the mode buttons clicked ("combat" switches T.combatMode on)
Modes == {"account", "combat", "threat"}

\* a mode button of the widget (account / combat / threat)
ModeClick ==
    /\ \E mode \in Modes :
         LET m0 == [Cur("mode") EXCEPT !.T.combatMode = (mode = "combat"),
                                       !.page.combatStored = (mode = "combat")]
             m1 == IF m0.T.combatMode THEN applyCombatConfig(m0)
                   ELSE IF mode = "threat" THEN m0
                   ELSE setElo(m0, m0.T.currentElo)
         IN Commit([clearArrows(m1) EXCEPT !.T.currentFen = EmptyFen])
    /\ UNCHANGED Session

Next ==
    \/ Tick
    \/ Bestmove
    \/ UciOk
    \/ Watchdog
    \/ EngineError
    \/ RestartTimer
    \/ WorkerCreated
    \/ QueueClick
    \/ ModeClick

Spec == Init /\ [][Next]_vars

(* ---------------------------- engine session --------------------------- *)
\* restarts scheduled or in progress at one time
MaxPending == 2

\* the 'uci' retry interval fires
UciPoke ==
    /\ uci.running
    /\ uci' = onUciInterval(T, uci)
    /\ UNCHANGED <<T, ignoreNextBestmove, analyzeWatchdog, searches, options,
                   loading, restartTimers, seq, aborted, ev, page,
                   StockfishEngine>>

\* the worker that crashed fires another error event while its restart is
\* pending (onerror stays attached; the worker is not terminated)
ErrorAgain ==
    /\ ~T.stockfishWorker
    /\ restartTimers > 0
    /\ restartTimers + loading < MaxPending
    /\ Commit(onError(Cur("error")))
    /\ restartTimers' = restartTimers + 1
    /\ UNCHANGED <<loading, uci>>

\* the life of the engine session from boot on: start-up, handshake,
\* crashes and restarts
SessionNext ==
    \/ WorkerCreated
    \/ UciPoke
    \/ UciOk
    \/ EngineError
    \/ ErrorAgain
    \/ RestartTimer

SpecSession == Init /\ [][SessionNext]_vars


(* ---------------------------- levels and modes ------------------------- *)
\* the values the stored 'elo' setting can hold at boot: the keys of the
\* tables and a rating that is no key
StoredElos == LevelKeys \cup {"900"}

\* boot with stored settings: the level and the engine mode are restored
\* before the engine is started
InitLevels ==
    /\ \E q \in BOOLEAN, c \in BOOLEAN, elo \in StoredElos :
         T = [currentFen |-> EmptyFen, previousFen |-> EmptyFen,
              arrows |-> <<>>, pendingArrows |-> <<>>,
              stockfishWorker |-> FALSE, engineReady |-> FALSE,
              currentElo |-> elo, analyzing |-> FALSE,
              myTurnColor |-> "-", combatMode |-> c, queueMode |-> q,
              monitorInterval |-> TRUE]
                @@ NoCastleMoved
    /\ ignoreNextBestmove = 0
    /\ analyzeWatchdog = 0
    /\ searches = <<>>
    /\ options = NoOpt
    /\ loading = initEngine([stockfishWorker |-> FALSE], 0)
    /\ restartTimers = 0
    /\ uci = NoInterval
    /\ seq = 0
    /\ aborted = {}
    /\ page = Booted(T.currentElo, T.combatMode, T.queueMode)
    /\ StockfishEngine = NoEngine
    /\ ev = Cur("boot").ev

\* boot with stored settings, then the board is polled and searches are
\* answered
LevelsNext ==
    \/ WorkerCreated
    \/ UciOk
    \/ Tick
    \/ Bestmove

SpecLevels == InitLevels /\ [][LevelsNext]_vars

\* analysis requests issued in one behaviour of SpecProfiles
MaxProfileReq == 1

\* setInterval(monitor, 100) fires (as Tick)
ProfileTick ==
    \E fen \in Fens \cup {NullFen}, color \in Colors :
      LET m == monitor(Cur("tick"), fen, color)
      IN /\ m.seq <= MaxProfileReq
         /\ Commit(m)
         /\ UNCHANGED Session

\* every place that looks a profile up, for every stored level and mode:
\* setElo (on 'uciok' and on a mode click), applyCombatConfig (mode click),
\* analyze, preAnalyze and the watchdog (board poll)
ProfilesNext ==
    \/ WorkerCreated
    \/ UciOk
    \/ ProfileTick
    \/ ModeClick

SpecProfiles == InitLevels /\ [][ProfilesNext]_vars

(* ---------------------------- StockfishEngine -------------------------- *)
\* the content script's state, which the StockfishEngine class never touches
Content == <<T, ignoreNextBestmove, analyzeWatchdog, searches, options,
             loading, restartTimers, uci, seq, aborted, ev, page>>

\* the analyze() calls of one run
MaxCalls == 2

MgrInit ==
    /\ ~StockfishEngine.engine
    /\ StockfishEngine' = mgrInit(StockfishEngine)
    /\ UNCHANGED Content

MgrUciOk ==
    /\ StockfishEngine.uciPending
    /\ StockfishEngine' = mgrUciok(StockfishEngine)
    /\ UNCHANGED Content

MgrSetElo ==
    /\ \E elo \in MgrLevels \cup {"2000"} :
         StockfishEngine' = mgrSetElo(StockfishEngine, elo)
    /\ UNCHANGED Content

MgrAnalyze ==
    /\ StockfishEngine.calls < MaxCalls
    /\ \E fen \in Fens :
         StockfishEngine' = mgrAnalyze(StockfishEngine, fen)
    /\ UNCHANGED Content

MgrStop ==
    /\ StockfishEngine' = mgrStop(StockfishEngine)
    /\ UNCHANGED Content

\* the worker answers its oldest search
MgrBestmove ==
    /\ Len(StockfishEngine.searches) > 0
    /\ \E match \in BOOLEAN :
         StockfishEngine' = handleBestMove(StockfishEngine, match)
    /\ UNCHANGED Content

\* the worker reports on its oldest search
MgrInfo ==
    /\ Len(StockfishEngine.searches) > 0
    /\ \E score \in BOOLEAN :
         StockfishEngine' = handleInfo(StockfishEngine, score)
    /\ UNCHANGED Content

ManagerNext ==
    \/ MgrInit
    \/ MgrUciOk
    \/ MgrSetElo
    \/ MgrAnalyze
    \/ MgrStop
    \/ MgrBestmove
    \/ MgrInfo

SpecManager == Init /\ [][ManagerNext]_vars

(* ---------------------------- widget and settings ---------------------- *)
\* the actions of the slider arrows
EloActions == {"first", "prev", "next", "last"}

\* a slider arrow of the widget is clicked
EloClick ==
    /\ \E action \in EloActions :
         Commit(onEloArrow(Cur("elo"), action))
    /\ UNCHANGED Session

\* a SET_ELO message arrives: the background script has saved its level
\* and the content script passes it to setElo
SetEloMessage ==
    /\ \E elo \in StoredElos :
         Commit([setElo(Cur("SET_ELO"), elo) EXCEPT !.page.elo = elo])
    /\ UNCHANGED Session

\* the storage answers loadWidgetSettings()
LoadWidgetSettings ==
    /\ ~page.settingsLoaded
    /\ Commit(loadWidgetSettings(Cur("load")))
    /\ UNCHANGED Session

\* the page is reloaded: the content script boots again and reads the
\* stored level; the stored modes wait for loadWidgetSettings
Reload ==
    /\ T' = [currentFen |-> EmptyFen, previousFen |-> EmptyFen,
             arrows |-> <<>>, pendingArrows |-> <<>>,
             stockfishWorker |-> FALSE, engineReady |-> FALSE,
             currentElo |-> IF page.elo # NoElo THEN page.elo ELSE "1000",
             analyzing |-> FALSE,
             myTurnColor |-> "-", combatMode |-> FALSE,
             queueMode |-> FALSE, monitorInterval |-> TRUE]
               @@ NoCastleMoved
    /\ ignoreNextBestmove' = 0
    /\ analyzeWatchdog' = 0
    /\ searches' = <<>>
    /\ options' = NoOpt
    /\ loading' = initEngine([stockfishWorker |-> FALSE], 0)
    /\ restartTimers' = 0
    /\ uci' = NoInterval
    /\ seq' = 0
    /\ aborted' = {}
    /\ page' = Booted(page.elo, page.combatStored, page.queueMode)
    /\ ev' = [Cur("boot").ev EXCEPT !.op = "reload"]
    /\ UNCHANGED StockfishEngine

\* levels and modes chosen in the widget or by message, before and after
\* the engine is ready, across crashes and reloads
WidgetNext ==
    \/ WorkerCreated
    \/ UciOk
    \/ EngineError
    \/ RestartTimer
    \/ EloClick
    \/ SetEloMessage
    \/ ModeClick
    \/ LoadWidgetSettings
    \/ Reload

\* boot: the stored level is read, the modes have their defaults until
\* loadWidgetSettings restores them
InitWidget ==
    /\ \E q \in BOOLEAN, c \in BOOLEAN, elo \in StoredElos \cup {NoElo} :
         /\ T = [currentFen |-> EmptyFen, previousFen |-> EmptyFen,
                 arrows |-> <<>>, pendingArrows |-> <<>>,
                 stockfishWorker |-> FALSE, engineReady |-> FALSE,
                 currentElo |-> IF elo # NoElo THEN elo ELSE "1000",
                 analyzing |-> FALSE,
                 myTurnColor |-> "-", combatMode |-> FALSE,
                 queueMode |-> FALSE, monitorInterval |-> TRUE]
                   @@ NoCastleMoved
         /\ page = Booted(elo, c, q)
    /\ ignoreNextBestmove = 0
    /\ analyzeWatchdog = 0
    /\ searches = <<>>
    /\ options = NoOpt
    /\ loading = initEngine([stockfishWorker |-> FALSE], 0)
    /\ restartTimers = 0
    /\ uci = NoInterval
    /\ seq = 0
    /\ aborted = {}
    /\ StockfishEngine = NoEngine
    /\ ev = Cur("boot").ev

SpecWidget == InitWidget /\ [][WidgetNext]_vars

(* ---------------------------- properties ------------------------------- *)
\* requests that are issued, not answered and not aborted
Outstanding == {searches[i].id : i \in 1..Len(searches)} \ aborted

\* the moves held as pending or displayed
Stored == {T.pendingArrows[i] : i \in 1..Len(T.pendingArrows)}
            \cup {T.arrows[i] : i \in 1..Len(T.arrows)}

\* C1: at most one analysis request is outstanding (issued, not aborted by
\* 'stop', not answered) in every reachable state.
C1_AtMostOneOutstanding == Cardinality(Outstanding) <= 1

\* a request was issued while another one was unanswered, and 'stop' was sent
C1_Witness ==
    /\ ev.issued # "none"
    /\ ev.stops = 1
    /\ Len(searches) = 2
    /\ Cardinality(Outstanding) = 1

\* C2: a bestmove is accepted only if it answers the most recently issued
\* request; what is held as pending or displayed is never the answer to an
\* older request.
C2_OnlyLatestAccepted ==
    /\ (ev.op = "bestmove" /\ ev.accepted) => ev.resp = seq
    /\ \A mv \in Stored : mv.req = seq

\* the bestmove of a cancelled request arrived and was dropped
C2_Witness ==
    /\ ev.op = "bestmove"
    /\ ev.resp < seq
    /\ ~ev.accepted
    /\ T.analyzing
    /\ Stored = {}

\* C3: once a tick has observed a non-initial snapshot B, no result of a
\* Primary request for another non-initial snapshot A is held as pending or
\* displayed.
C3_OnlyCurrentSnapshotStored ==
    \A mv \in Stored :
        (/\ mv.kind = "analyze"
         /\ mv.fen # StartFen
         /\ T.currentFen \notin {StartFen, EmptyFen})
        => mv.fen = T.currentFen

\* C4: a move becomes displayed only when the side to move of the current
\* snapshot is the local player's color.
C4_DisplayedOnlyOnMyTurn ==
    [][(Len(T.arrows) = 0 /\ Len(T'.arrows) > 0 /\ T'.currentFen # EmptyFen)
         => Turn(T'.currentFen) = T'.myTurnColor]_vars

\* C5: the tick that follows a tick that detected a new game, and observes
\* the same position with the same player color, does not detect a new game
\* again.
C5_NewGameDetectedOnce ==
    [][(ev.op = "tick" /\ ev.newGame /\ ev'.op = "tick" /\ ev' # ev
          /\ ev'.fen = ev.fen /\ T'.myTurnColor = T.myTurnColor)
         => ~ev'.newGame]_vars

\* C6: a tick classifies the transition as a new game if and only if it
\* observes the initial position and the tick before it observed another
\* position.
C6_NewGameIffEdge ==
    [][(ev.op = "tick" /\ ev.fen # NullFen /\ ev'.op = "tick" /\ ev' # ev
          /\ ev'.fen # NullFen)
         => (ev'.newGame <=> (ev'.fen = StartFen /\ ev.fen # StartFen))]_vars

\* C7: the answer to a request issued for a position of the previous game,
\* before the tick that detected the new game, is not stored or displayed
\* after that tick.
C7_OldGameAnswerDropped ==
    [][(/\ ev.op = "tick" /\ ev.newGame
        /\ Len(searches) > 0
        /\ Head(searches).fen # StartFen
        /\ ev'.op = "bestmove"
        /\ ev'.resp <= seq - (IF ev.issued = "none" THEN 0 ELSE 1))
         => ~ev'.shown]_vars

\* C8: a watchdog expiry on a busy slot frees it and sends 'stop'; a busy
\* slot always has an armed watchdog; and the tick after an expiry issues a
\* request when it is the player's turn.
C8_WatchdogFreesSlot ==
    /\ [](T.analyzing => analyzeWatchdog # 0)
    /\ [][(ev'.op = "watchdog" /\ T.analyzing)
            => (~T'.analyzing /\ ev'.stops = 1 /\ analyzeWatchdog' = 0)]_vars
    /\ [][(ev.op = "watchdog" /\ ev.stops = 1 /\ ev'.op = "tick"
             /\ ev'.fen # NullFen /\ Turn(ev'.fen) = T'.myTurnColor)
            => (ev'.issued = "analyze" /\ T'.analyzing)]_vars

\* the watchdog expired on a busy slot
C8_Witness ==
    /\ ev.op = "watchdog"
    /\ ev.stops = 1
    /\ ~T.analyzing
    /\ Len(searches) > 0

\* C9: when a prefetch result is pending at the opponent's turn and the next
\* tick observes a snapshot on which it is the player's turn, the pending
\* result is promoted and displayed and no request is issued.
C9_PrefetchPromoted ==
    [][(/\ Len(T.pendingArrows) > 0
        /\ T.pendingArrows[1].kind = "preAnalyze"
        /\ T.pendingArrows[1].fen = T.currentFen
        /\ Turn(T.currentFen) # T.myTurnColor
        /\ ev'.op = "tick" /\ ev' # ev
        /\ ev'.fen \notin {NullFen, StartFen}
        /\ T'.myTurnColor = T.myTurnColor
        /\ Turn(ev'.fen) = T'.myTurnColor)
         => (ev'.promoted /\ ev'.issued = "none" /\ T'.arrows = T.pendingArrows)]_vars

\* C10: a valid accepted result whose random sample falls below the active
\* profile's errorRate is neither stored as pending nor displayed.
C10_SuppressedNotStored ==
    [][(ev'.op = "bestmove" /\ ev' # ev /\ ev'.accepted /\ ev'.valid
          /\ ev'.sample < ActiveCfg(T).errorRate)
         => (~ev'.shown /\ T'.pendingArrows = T.pendingArrows
               /\ T'.arrows = T.arrows)]_vars

\* engines that are live or being started
Engines == loading + (IF T.stockfishWorker THEN 1 ELSE 0)

\* C12: every crash schedules one restart and no start-up is performed
\* beyond the crashes of a live engine: at most one engine is live or being
\* started, and when none is, a restart is scheduled.
C12_OneStartPerCrash ==
    /\ Engines <= 1
    /\ Engines + restartTimers >= 1

\* C13: without 'uciok' the retry interval sends at most 20 'uci' pokes and
\* shows the failure notification at most once, after which it is stopped.
C13_TwentyPokes ==
    /\ uci.retries <= 20
    /\ uci.failed <= 1
    /\ (uci.failed = 1 => ~uci.running)

C14_AnswerAfterRestartShown ==
    [][(/\ ev'.op = "bestmove" /\ ev' # ev
        /\ Len(searches) = 1
        /\ Head(searches).id \notin aborted
        /\ Head(searches).kind = "analyze"
        /\ Head(searches).fen = T.currentFen
        /\ Turn(T.currentFen) = T.myTurnColor)
         => (/\ ev'.accepted
             /\ (ev'.valid => (/\ Len(T'.arrows) = 1
                               /\ T'.arrows[1].fen = T.currentFen)))]_vars

\* C15: 'ucinewgame' is sent only by a tick that observes the initial
\* position right after a non-initial snapshot: never by a tick whose
\* snapshot is unchanged or that follows the initial or no snapshot.
C15_UciNewGameOnlyOnEdge ==
    [][ev'.ucinewgame
         => (/\ ev'.op = "tick"
             /\ ev'.fen = StartFen
             /\ T.currentFen \notin {StartFen, EmptyFen})]_vars

\* C16: a tick that observes a snapshot on which it is not the player's
\* turn ends with nothing displayed, and keeps the pending result when the
\* snapshot is unchanged.
C16_OpponentTurnClearsDisplay ==
    [][(/\ ev'.op = "tick" /\ ev' # ev
        /\ ev'.fen # NullFen
        /\ Turn(ev'.fen) # T'.myTurnColor)
         => (/\ T'.arrows = <<>>
             /\ (ev'.fen = T.currentFen
                   => T'.pendingArrows = T.pendingArrows))]_vars

\* the request issued last
LastReq == searches[Len(searches)]

\* movetime + 5000 with a time cap, else 15000 + 1500 * (depth - 10), but
\* not below 15000
ExpectedWatchdog(cfg) ==
    IF cfg.movetime > 0 THEN cfg.movetime + 5000
    ELSE LET d == 15000 + 1500 * (cfg.depth - 10)
         IN IF d < 15000 THEN 15000 ELSE d

\* C17: for every level and mode, the watchdog armed for a request lasts
\* movetime + 5000 ms when the active profile has a time cap, and otherwise
\* 15000 ms + 1500 ms * (depth - 10), floored at 15000 ms.
C17_WatchdogDuration ==
    [][(ev'.op = "tick" /\ ev' # ev /\ ev'.issued # "none")
         => analyzeWatchdog' = ExpectedWatchdog(ActiveCfg(T'))]_vars

\* a request was issued in combat mode at level 2000 (depth 28, no time cap)
C17_Witness ==
    /\ ev.op = "tick"
    /\ ev.issued = "analyze"
    /\ T.combatMode
    /\ T.currentElo = "2000"
    /\ analyzeWatchdog = 42000

\* C18: for every level and mode, the depth of a prefetch request does not
\* exceed the depth of the active profile.
C18_PrefetchDepthReduced ==
    [][(ev'.op = "tick" /\ ev' # ev /\ ev'.issued = "preAnalyze")
         => searches'[Len(searches')].depth <= ActiveCfg(T').depth]_vars

\* C19: when a prefetch is outstanding and a tick observes a new snapshot
\* on the player's turn, that tick sends 'stop', issues the Primary request
\* for the new snapshot and leaves the prefetch aborted; the bestmove of an
\* aborted request is never accepted.
C19_PrimaryPreemptsPrefetch ==
    /\ [][(/\ Len(searches) > 0
            /\ LastReq.kind = "preAnalyze"
            /\ LastReq.id \in Outstanding
            /\ ev'.op = "tick" /\ ev' # ev
            /\ ev'.fen \notin {NullFen, T.currentFen}
            /\ Turn(ev'.fen) = T'.myTurnColor)
             => (/\ ev'.stops = 1
                 /\ ev'.issued = "analyze"
                 /\ searches'[Len(searches')].fen = ev'.fen
                 /\ LastReq.id \in aborted'
                 /\ Outstanding' = {seq'})]_vars
    /\ [][(ev'.op = "bestmove" /\ ev' # ev /\ ev'.resp \in aborted)
             => (~ev'.accepted /\ ~ev'.shown
                   /\ T'.pendingArrows = T.pendingArrows
                   /\ T'.arrows = T.arrows)]_vars

\* a tick preempted an outstanding prefetch with a Primary request
C19_Witness ==
    /\ ev.op = "tick"
    /\ ev.stops = 1
    /\ ev.issued = "analyze"
    /\ Len(searches) = 2
    /\ searches[1].kind = "preAnalyze"
    /\ searches[1].id \in aborted
    /\ searches[2].fen = T.currentFen
    /\ Outstanding = {seq}

\* the entry of the lowest level in the table of the mode
LowestProfile(t) == (IF t.combatMode THEN COMBAT_CONFIG ELSE ELO_CONFIG)["1000"]

\* C20: for a level key that has no table entry, in both modes, setElo (on
\* 'uciok'), applyCombatConfig (on the combat button), analyze, preAnalyze
\* and the watchdog all use the entry of level '1000' of the mode's table.
C20_FallbackToLowest ==
    [][(T'.currentElo \notin LevelKeys /\ ev' # ev)
         => (/\ (ev'.op = "uciok"
                   => (/\ options'.limit = "true"
                       /\ options'.uciElo = LowestProfile(T').uciElo
                       /\ options'.skill = LowestProfile(T').skillLevel))
             /\ (ev'.op = "mode" /\ T'.combatMode /\ T'.engineReady
                   => (/\ options'.limit = "true"
                       /\ options'.uciElo = COMBAT_CONFIG["1000"].uciElo
                       /\ options'.skill = COMBAT_CONFIG["1000"].skillLevel))
             /\ (ev'.op = "tick" /\ ev'.issued = "analyze"
                   => (/\ searches'[Len(searches')].depth = LowestProfile(T').depth
                       /\ searches'[Len(searches')].movetime = LowestProfile(T').movetime))
             /\ (ev'.op = "tick" /\ ev'.issued = "preAnalyze"
                   => searches'[Len(searches')].depth
                        = Max(6, LowestProfile(T').depth - 4))
             /\ (ev'.op = "tick" /\ ev'.issued # "none"
                   => analyzeWatchdog' = WatchdogTimeout(LowestProfile(T'))))]_vars

\* with a level key that is in no table, combat mode was switched on and a
\* request then issued with the depth of combat level 1000
C20_Witness ==
    /\ T.currentElo \notin LevelKeys
    /\ T.combatMode
    /\ options.uciElo = 1100
    /\ ev.op = "tick"
    /\ ev.issued = "analyze"
    /\ LastReq.depth = 10
    /\ analyzeWatchdog = 15000

\* the engine session accepts search commands
Ready == T.engineReady /\ T.stockfishWorker

\* C21: a tick that observes a changed snapshot ends with nothing pending
\* and nothing displayed, and calls analyze when it is the player's turn,
\* else preAnalyze when queue mode is on, else nothing (a ready engine is sent
\* that request, an engine that is not ready is sent none); with queue mode
\* off no tick issues a request on the opponent's turn.
C21_MoveMadeDispatch ==
    /\ [][(/\ ev'.op = "tick" /\ ev' # ev
            /\ ev'.fen \notin {NullFen, T.currentFen})
             => (/\ T'.pendingArrows = <<>>
                 /\ T'.arrows = <<>>
                 /\ ev'.issued =
                      (IF ~Ready THEN "none"
                       ELSE IF Turn(ev'.fen) = T'.myTurnColor THEN "analyze"
                       ELSE IF T.queueMode THEN "preAnalyze"
                       ELSE "none"))]_vars
    /\ [][(/\ ev'.op = "tick" /\ ev' # ev
            /\ ev'.fen # NullFen
            /\ ~T.queueMode
            /\ Turn(ev'.fen) # T'.myTurnColor)
             => ev'.issued = "none"]_vars

\* a tick observed a changed snapshot on the opponent's turn with queue mode
\* on: the running search was stopped and a prefetch issued
C21_Witness ==
    /\ ev.op = "tick"
    /\ ev.issued = "preAnalyze"
    /\ ev.stops = 1
    /\ T.queueMode
    /\ Turn(T.currentFen) # T.myTurnColor
    /\ Stored = {}

\* C22: once a tick has observed a king or rook off its starting square,
\* the FEN produced for every later snapshot of the same game carries none of
\* the castling rights that need that piece.
C22_CastlingFollowsTracking ==
    [][(/\ ev'.op = "tick" /\ ev' # ev
        /\ ev'.fen \notin {NullFen, StartFen}
        /\ T.currentFen \notin {EmptyFen, StartFen})
         => \A p \in OffHome(T.currentFen) :
               RightsOf(p) \cap getFenCastling(T, ev'.fen) = {}]_vars

\* C23: a tick for which the board gives no snapshot changes nothing:
\* TitanState (currentFen, previousFen, pending, displayed, analyzing and the
\* session flags), the watchdog, the ignore counter and the commands sent
\* to the engine are as before.
C23_NoSnapshotNoChange ==
    [][(ev'.op = "tick" /\ ev' # ev /\ ev'.fen = NullFen)
         => (/\ T' = T
             /\ searches' = searches
             /\ options' = options
             /\ analyzeWatchdog' = analyzeWatchdog
             /\ ignoreNextBestmove' = ignoreNextBestmove
             /\ seq' = seq
             /\ ev'.issued = "none" /\ ev'.stops = 0 /\ ~ev'.ucinewgame)]_vars

\* the board gave no snapshot while a move was displayed
C23_Witness ==
    /\ ev.op = "tick"
    /\ ev.fen = NullFen
    /\ T.currentFen # EmptyFen
    /\ Len(T.arrows) = 1
    /\ T.arrows = T.pendingArrows

\* C24: the error handler frees the slot, cancels the watchdog and leaves
\* the session not ready and without a worker; as long as the session is not
\* ready no search is running or sent, no 'stop' and no option is sent, the
\* slot is free and no watchdog is armed.
C24_CrashFailsRequest ==
    /\ [][(ev'.op = "error" /\ ev' # ev)
             => (/\ ~T'.analyzing
                 /\ analyzeWatchdog' = 0
                 /\ ~T'.engineReady
                 /\ ~T'.stockfishWorker)]_vars
    /\ [](~T.engineReady
             => (/\ searches = <<>>
                 /\ options = NoOpt
                 /\ ~T.analyzing
                 /\ analyzeWatchdog = 0
                 /\ ev.issued = "none" /\ ev.stops = 0 /\ ~ev.ucinewgame))

\* after a crash, before the restarted engine is ready, a tick observed the
\* player's turn with nothing stored and sent nothing
C24_Witness ==
    /\ ev.op = "tick"
    /\ seq > 0
    /\ ~T.engineReady
    /\ T.currentFen # EmptyFen
    /\ Turn(T.currentFen) = T.myTurnColor
    /\ Stored = {}
    /\ ev.issued = "none"

\* C25: in every reachable state the ignore counter equals the number of
\* aborted searches whose bestmove the live worker will still deliver.
C25_IgnoreCounterExact == ignoreNextBestmove = Cardinality(aborted)

\* C26: the handshake retry interval is cancelled by the crash of the engine
\* it was started for: whenever there is no worker, no retry interval is
\* running.
C26_NoStaleInterval == ~T.stockfishWorker => ~uci.running

\* C27: an accepted response cancels the watchdog and frees the slot; an
\* armed watchdog belongs to the request issued last, which is still
\* unanswered; and an expiry aborts no request but that one.
C27_WatchdogBelongsToLatest ==
    /\ [][(ev'.op = "bestmove" /\ ev' # ev /\ ev'.accepted)
             => (analyzeWatchdog' = 0 /\ ~T'.analyzing)]_vars
    /\ [](analyzeWatchdog # 0
             => \E i \in 1..Len(searches) : searches[i].id = seq)
    /\ [][(ev'.op = "watchdog" /\ ev' # ev)
             => (/\ aborted' \ aborted \subseteq {seq}
                 /\ (ev'.stops = 1 => seq \in aborted'))]_vars

\* C28: in every reachable state at most one worker is live or being
\* started (fetched).
C28_SingleWorker == Engines <= 1

\* C29: a tick whose snapshot is unchanged issues a Primary request exactly
\* when it is the player's turn, nothing is pending, nothing is displayed,
\* the slot is free and the engine is ready, and issues no other request;
\* when it is the player's turn, a result is pending and nothing is
\* displayed, it displays the pending result and issues no request.
C29_UnchangedTick ==
    [][(/\ ev'.op = "tick" /\ ev' # ev
        /\ ev'.fen # NullFen
        /\ ev'.fen = T.currentFen)
         => (/\ ev'.issued \in {"none", "analyze"}
             /\ (ev'.issued = "analyze"
                   <=> (/\ Turn(ev'.fen) = T'.myTurnColor
                        /\ Len(T.pendingArrows) = 0
                        /\ Len(T.arrows) = 0
                        /\ ~T.analyzing
                        /\ Ready))
             /\ ((/\ Turn(ev'.fen) = T'.myTurnColor
                   /\ Len(T.pendingArrows) > 0
                   /\ Len(T.arrows) = 0)
                  => (/\ ev'.promoted
                      /\ T'.arrows = T.pendingArrows
                      /\ ev'.issued = "none")))]_vars

\* C30: when a result is displayed for the current snapshot on the player's
\* turn, a tick that observes the same snapshot with the same player color
\* leaves it displayed and issues no request.
C30_DisplayedStays ==
    [][(/\ Len(T.arrows) > 0
        /\ T.arrows[1].fen = T.currentFen
        /\ Turn(T.currentFen) = T.myTurnColor
        /\ ev'.op = "tick" /\ ev' # ev
        /\ ev'.fen = T.currentFen
        /\ T'.myTurnColor = T.myTurnColor)
         => (T'.arrows = T.arrows /\ ev'.issued = "none")]_vars

\* C31: for every level and mode, the watchdog armed for a prefetch request
\* lasts the time cap of that request (3000 ms) plus 5000 ms.
C31_PrefetchWatchdog ==
    [][(ev'.op = "tick" /\ ev' # ev /\ ev'.issued = "preAnalyze")
         => analyzeWatchdog' = searches'[Len(searches')].movetime + 5000]_vars

\* C36: after any number of setup() calls, those of the monitor's new-game
\* branch included, exactly one monitor interval is running, and it is the
\* one T.monitorInterval refers to.
C36_OnePollingTimer == page.intervals = 1 /\ T.monitorInterval

C36_Witness ==
    /\ ev.op = "tick"
    /\ ev.newGame
    /\ seq > 0
    /\ page.intervals = 1

\* the static options (strength cap, hash size, target rating, skill) the
\* engine was last sent are those of the profile cfg
OptionsMatch(o, cfg) ==
    /\ o.skill = cfg.skillLevel
    /\ IF cfg.unlimited
       THEN o.limit = "false" /\ o.hash = 32
       ELSE o.limit = "true" /\ o.hash = 16 /\ o.uciElo = cfg.uciElo

\* the level the slider index denotes
SliderLevel == String(ELO_LEVELS[page.currentEloIndex + 1])

\* C32: while the session is not ready no option has been sent to the
\* worker, though a level chosen on the slider is remembered; the step that
\* makes the session ready keeps the selected level and mode and sends the
\* static options of their profile.
C32_OptionsOnReadiness ==
    /\ [](~T.engineReady => options = NoOpt)
    /\ [](ev.op = "elo" => T.currentElo = SliderLevel /\ page.elo = SliderLevel)
    /\ [][(~T.engineReady /\ T'.engineReady)
            => /\ T'.currentElo = T.currentElo
               /\ T'.combatMode = T.combatMode
               /\ OptionsMatch(options', ActiveCfg(T))]_vars

C32_Witness ==
    /\ ev.op = "uciok"
    /\ T.engineReady
    /\ page.currentEloIndex = 11
    /\ T.currentElo = "2500"
    /\ T.combatMode
    /\ options.uciElo = 2800

\* C33: while the session is ready, the options last sent are those of the
\* profile the next analyze() uses (table by combat flag, current level);
\* the strength cap is off and the hash 32 exactly when the level is 3000.
C33_OptionsFollowProfile ==
    T.engineReady =>
      /\ OptionsMatch(options, ActiveCfg(T))
      /\ (options.limit = "false" /\ options.hash = 32) <=> (T.currentElo = "3000")

\* C37: when the saved settings have been loaded after a (re)load of the
\* page, the slider index and T.currentElo both denote the level that was
\* saved, for each of the 14 levels.
C37_LevelRoundTrip ==
    (ev.op = "load" /\ page.settingsLoaded /\ page.elo \in LevelKeys)
      => (T.currentElo = page.elo /\ SliderLevel = T.currentElo)

\* C34: a 'position'/'go' pair is sent only by a step that starts with the
\* session ready and a worker present; a tick that starts in any other state
\* (before the first readiness, or between a crash and the readiness of the
\* restarted engine) sends nothing and leaves the slot free.
C34_SearchOnlyWhenReady ==
    /\ [][(searches' # searches /\ Len(searches') > 0
             /\ (Len(searches) = 0 \/ LastReq' # LastReq))
            => (/\ T.engineReady /\ T.stockfishWorker
                /\ T'.engineReady /\ T'.stockfishWorker
                /\ ev'.op = "tick"
                /\ ev'.issued \in {"analyze", "preAnalyze"}
                /\ seq' = seq + 1)]_vars
    /\ [][(ev'.op = "tick" /\ ev' # ev /\ ~(T.engineReady /\ T.stockfishWorker))
            => (/\ ev'.issued = "none"
                /\ seq' = seq
                /\ searches' = searches
                /\ ~T'.analyzing)]_vars

\* before anything was ever sent, with queue mode on and the session not
\* ready, a tick observed a position on the opponent's turn and sent nothing
C34_Witness ==
    /\ ev.op = "tick"
    /\ seq = 0
    /\ ~T.engineReady
    /\ T.queueMode
    /\ T.currentFen # EmptyFen
    /\ Turn(T.currentFen) # T.myTurnColor
    /\ ev.issued = "none"
    /\ searches = <<>>
    /\ ~T.analyzing

\* C35: in every reachable state, when arrows are displayed the pending
\* arrows are the same arrows.
C35_ArrowsArePending == Len(T.arrows) > 0 => T.pendingArrows = T.arrows

\* an accepted Primary answer is displayed and pending at once, and a
\* promoted prefetch answer is displayed while it stays pending
C35_Witness ==
    /\ Len(T.arrows) = 1
    /\ T.pendingArrows = T.arrows
    /\ T.arrows[1].kind = "preAnalyze"
    /\ ev.op = "tick"
    /\ ev.promoted

\* C38: a bestmove handed to a callback is the answer to the search of the
\* analyze() call that registered the callback, and while a search that was
\* not stopped is unanswered, analyzing is true.
C38_CallbackGetsOwnAnswer ==
    /\ [][(StockfishEngine'.got # StockfishEngine.got
             /\ StockfishEngine'.got.kind = "bestmove")
            => StockfishEngine'.got.search = StockfishEngine'.got.call]_vars
    /\ []((\E i \in 1..Len(StockfishEngine.searches) :
              ~StockfishEngine.searches[i].stopped)
            => StockfishEngine.analyzing)


====
